---- MODULE Spec2Model ----
(***************************************************************************)
(* A model of the scraping-image application: the image URL normalizer     *)
(* and filter (cleanImages), the acquisition chain (scrapeUrl /            *)
(* scrapeViaProxies), the orchestrator (handleScrape), the archive builder *)
(* (handleDownloadImages) and the summarizer (handleSummarize /            *)
(* summarizePropertyListing).                                              *)
(*                                                                         *)
(* Strings are sequences of one-character strings, so that startsWith,      *)
(* includes, replace, trim and split are computed character by character.   *)
(***************************************************************************)
EXTENDS Integers, Sequences, FiniteSets, TLC

VARIABLES
    \* ---- scrapeUrl (src/utils/scraper.ts) ----
    url,          \* the target URL of the scrapeUrl call
    page,         \* what the target page holds: the raw image candidates
    pc,           \* position of the scrapeUrl call
    proxyIdx,     \* index into PROXY_PROVIDERS of the next relay to try
    html,         \* scrapeViaProxies' local `html`
    usedProxy,    \* scrapeViaProxies' local `usedProxy` (0 = '')
    fetchError,   \* scrapeViaProxies' local `fetchError`
    requests,     \* the network requests issued so far, in order
    seen,         \* what the requests have ended in so far (history)
    result,       \* the value scrapeUrl returned
    thrown,       \* whether an exception escaped scrapeUrl
    \* ---- App component state (src/unnamed/part_001) ----
    inputUrls,
    scrapedData,
    processingStatus,
    isScraping,
    runs,         \* the handleScrape invocations in flight
    started,      \* how many handleScrape invocations have started (history)
    lastRun,      \* the invocation that finished last (history)
    \* ---- handleDownloadImages (src/unnamed/part_001) ----
    dl,           \* the handleDownloadImages invocation: its position, its image
                  \* list, the state of each image task, the files of its zip,
                  \* the archive generated and the saveAs calls made
    \* ---- handleSummarize (src/unnamed/part_001) ----
    summaries,
    generatingSummaryFor,
    sum,          \* the handleSummarize invocations in flight, the calls of
                  \* handleSummarize made (history) and the requests sent to
                  \* the external model (history)
    \* ---- the filter callback of cleanImages (src/utils/scraper.ts) ----
    flt,          \* the URL given to the callback and what it answered
    \* ---- the tasks of handleScrape, each inside its scrapeUrl call ----
    tasks

vars == <<url, page, pc, proxyIdx, html, usedProxy, fetchError, requests,
          seen, result, thrown,
          inputUrls, scrapedData, processingStatus, isScraping, runs, started,
          lastRun, dl, summaries, generatingSummaryFor, sum, flt, tasks>>

scrapeVars == <<url, page, pc, proxyIdx, html, usedProxy, fetchError,
                requests, seen, result, thrown>>
appVars == <<inputUrls, scrapedData, processingStatus, isScraping, runs,
             started, lastRun, summaries, generatingSummaryFor>>

---------------------------------------------------------------------------
(* String primitives.                                                      *)

Letters == {"a", "b", "c", "d", "e", "f", "g", "h", "i", "j", "k", "l", "m",
            "n", "o", "p", "q", "r", "s", "t", "u", "v", "w", "x", "y", "z"}
Digits == {"0", "1", "2", "3", "4", "5", "6", "7", "8", "9"}
Backslash == "\\"
Quotes == {"'", "\""}
Whitespace == {" ", "\n"}

Str_http == <<"h", "t", "t", "p">>
Str_https == <<"h", "t", "t", "p", "s">>
Str_ftp == <<"f", "t", "p">>
Str_httpsColon == <<"h", "t", "t", "p", "s", ":">>
Str_slashSlash == <<"/", "/">>
Str_svg == <<".", "s", "v", "g">>
Str_tracker == <<"t", "r", "a", "c", "k", "e", "r">>
Str_analytics == <<"a", "n", "a", "l", "y", "t", "i", "c", "s">>
Str_facebook == <<"f", "a", "c", "e", "b", "o", "o", "k">>
Str_google == <<"g", "o", "o", "g", "l", "e">>
Str_whatsapp == <<"w", "h", "a", "t", "s", "a", "p", "p">>
Str_prop24 == <<"i", "m", "a", "g", "e", "s", ".", "p", "r", "o", "p", "2", "4", ".", "c", "o", "m">>
Str_property24 == <<"p", "r", "o", "p", "e", "r", "t", "y", "2", "4">>
Str_icon == <<"i", "c", "o", "n">>
Str_logo == <<"l", "o", "g", "o">>
Str_property == <<"p", "r", "o", "p", "e", "r", "t", "y">>
Str_pct20 == <<"%", "2", "0">>
Str_pct22 == <<"%", "2", "2">>

\* String.prototype.startsWith
StartsWith(s, prefix) ==
    /\ Len(s) >= Len(prefix)
    /\ \A j \in 1..Len(prefix) : s[j] = prefix[j]

\* String.prototype.includes
Includes(s, sub) ==
    \E i \in 1..(Len(s) - Len(sub) + 1) :
        \A j \in 1..Len(sub) : s[i + j - 1] = sub[j]

\* s.substring(n - 1): the characters of s from position n on
From(s, n) == SubSeq(s, n, Len(s))

\* url.replace(/\\/g, ''): every backslash removed
RemoveBackslashes(s) == SelectSeq(s, LAMBDA c : c # Backslash)

\* cleanUrl.replace(/^['"]|['"]$/g, ''): one leading quote removed, then one
\* trailing quote of what is left
StripQuotes(s) ==
    LET a == IF Len(s) > 0 /\ s[1] \in Quotes THEN Tail(s) ELSE s
    IN IF Len(a) > 0 /\ a[Len(a)] \in Quotes THEN SubSeq(a, 1, Len(a) - 1) ELSE a

RECURSIVE TrimLeft(_)
TrimLeft(s) ==
    IF Len(s) > 0 /\ s[1] \in Whitespace THEN TrimLeft(Tail(s)) ELSE s

RECURSIVE TrimRight(_)
TrimRight(s) ==
    IF Len(s) > 0 /\ s[Len(s)] \in Whitespace
    THEN TrimRight(SubSeq(s, 1, Len(s) - 1))
    ELSE s

\* String.prototype.trim
Trim(s) == TrimRight(TrimLeft(s))

\* The position (from i on) of the first character of s that is in chars,
\* Len(s) + 1 when there is none
RECURSIVE FirstInFrom(_, _, _)
FirstInFrom(s, chars, i) ==
    IF i > Len(s) \/ s[i] \in chars THEN i ELSE FirstInFrom(s, chars, i + 1)

FirstIn(s, chars) == FirstInFrom(s, chars, 1)

\* The position of the first character of s that is not in chars
RECURSIVE FirstNotInFrom(_, _, _)
FirstNotInFrom(s, chars, i) ==
    IF i > Len(s) \/ s[i] \notin chars THEN i ELSE FirstNotInFrom(s, chars, i + 1)

FirstNotIn(s, chars) == FirstNotInFrom(s, chars, 1)

RECURSIVE Flatten(_)
Flatten(ss) == IF ss = <<>> THEN <<>> ELSE Head(ss) \o Flatten(Tail(ss))

\* String.prototype.split('\n')
RECURSIVE Split(_)
Split(s) ==
    LET k == FirstIn(s, {"\n"})
    IN IF k > Len(s) THEN <<s>>
       ELSE <<SubSeq(s, 1, k - 1)>> \o Split(From(s, k + 1))

---------------------------------------------------------------------------
(* new URL(input, base): the URL parser, for inputs over lower-case        *)
(* letters, digits and  : / . \ ' " space  (no query, fragment, port,       *)
(* credentials, dot segments or numeric hosts).                             *)

SpecialSchemes == {Str_http, Str_https, Str_ftp}
SchemeChars == Letters \cup Digits \cup {"+", "-", "."}
Slashes == {"/", Backslash}
IsSlash(c) == c \in Slashes
\* forbidden host code points of the alphabet
ForbiddenHostChars == {" ", ":", "/", Backslash, "%"}

NoBase == [ok |-> FALSE, scheme |-> <<>>, hasHost |-> FALSE, host |-> <<>>, path |-> <<>>]
Failure == NoBase

\* the serializer: URL.prototype.href
Href(u) ==
    u.scheme \o <<":">> \o (IF u.hasHost THEN Str_slashSlash \o u.host ELSE <<>>) \o u.path

\* a path as the parser stores it: \ is a separator of a special URL, and
\* space and " are percent-encoded
EncodePath(p, special) ==
    Flatten([i \in 1..Len(p) |->
        IF p[i] = " " THEN Str_pct20
        ELSE IF p[i] = "\"" THEN Str_pct22
        ELSE IF special /\ p[i] = Backslash THEN <<"/">>
        ELSE <<p[i]>>])

\* authority and path of a special URL: leading slashes are skipped, the host
\* runs to the next slash and must be non-empty and free of forbidden characters
ParseSpecialAuthority(scheme, rest) ==
    LET r == From(rest, FirstNotIn(rest, Slashes))
        k == FirstIn(r, Slashes)
        host == SubSeq(r, 1, k - 1)
        path == EncodePath(From(r, k), TRUE)
    IN IF host = <<>> \/ \E i \in 1..Len(host) : host[i] \in ForbiddenHostChars
       THEN Failure
       ELSE [ok |-> TRUE, scheme |-> scheme, hasHost |-> TRUE, host |-> host,
             path |-> IF path = <<>> THEN <<"/">> ELSE path]

\* a URL of a non-special scheme: //host/path, /path or an opaque path
ParseNonSpecial(scheme, rest) ==
    IF StartsWith(rest, Str_slashSlash)
    THEN LET r == From(rest, 3)
             k == FirstIn(r, {"/"})
             host == SubSeq(r, 1, k - 1)
         IN IF \E i \in 1..Len(host) : host[i] \in ForbiddenHostChars
            THEN Failure
            ELSE [ok |-> TRUE, scheme |-> scheme, hasHost |-> TRUE, host |-> host,
                  path |-> EncodePath(From(r, k), FALSE)]
    ELSE [ok |-> TRUE, scheme |-> scheme, hasHost |-> FALSE, host |-> <<>>,
          path |-> IF StartsWith(rest, <<"/">>) THEN EncodePath(rest, FALSE) ELSE rest]

\* the directory of a path: the path without its last segment
RECURSIVE DirOf(_)
DirOf(p) ==
    IF p = <<>> THEN <<>>
    ELSE IF p[Len(p)] = "/" THEN p
    ELSE DirOf(SubSeq(p, 1, Len(p) - 1))

\* an input without a scheme, resolved against a special base URL
ParseRelative(s, base) ==
    IF ~base.ok \/ ~base.hasHost THEN Failure
    ELSE IF s = <<>> THEN base
    ELSE IF IsSlash(s[1])
    THEN IF Len(s) > 1 /\ IsSlash(s[2])
         THEN ParseSpecialAuthority(base.scheme, s)
         ELSE [base EXCEPT !.path = EncodePath(s, TRUE)]
    ELSE [base EXCEPT !.path = DirOf(base.path) \o EncodePath(s, TRUE)]

ParseURL(input, base) ==
    LET s == Trim(input)
        k == FirstNotIn(s, SchemeChars)
        hasScheme == /\ k > 1
                     /\ k <= Len(s)
                     /\ s[1] \in Letters
                     /\ s[k] = ":"
        scheme == SubSeq(s, 1, k - 1)
        rest == From(s, k + 1)
    IN IF ~hasScheme THEN ParseRelative(s, base)
       ELSE IF scheme \notin SpecialSchemes THEN ParseNonSpecial(scheme, rest)
       ELSE IF /\ base.ok
               /\ base.scheme = scheme
               /\ ~(Len(rest) > 1 /\ IsSlash(rest[1]) /\ IsSlash(rest[2]))
            THEN ParseRelative(rest, base)
            ELSE ParseSpecialAuthority(scheme, rest)

isValidUrl(string) == ParseURL(string, NoBase).ok

---------------------------------------------------------------------------
(* cleanImages (src/utils/scraper.ts).                                     *)

\* the null a failed resolution maps to
NullUrl == <<"null">>

\* the map callback of cleanImages: one raw candidate to an absolute URL
NormalizeUrl(u, baseUrl) ==
    IF StartsWith(u, Str_slashSlash) THEN Str_httpsColon \o u
    ELSE LET cleanUrl == StripQuotes(RemoveBackslashes(u))
             parsed == ParseURL(cleanUrl, ParseURL(baseUrl, NoBase))
         IN IF parsed.ok THEN Href(parsed) ELSE NullUrl

\* the junk denylist of the filter callback
IsJunk(u) ==
    \/ Includes(u, Str_svg)
    \/ Includes(u, Str_tracker)
    \/ Includes(u, Str_analytics)
    \/ Includes(u, Str_facebook)
    \/ Includes(u, Str_google)
    \/ Includes(u, Str_whatsapp)

\* the vendor allowlist of the filter callback
IsVendorImage(u) == Includes(u, Str_prop24) \/ Includes(u, Str_property24)

\* KeepUrl with the icon/logo test ahead of the vendor allowlist
KeepUrl_IconFirst(u) ==
    IF ~StartsWith(u, Str_http) THEN FALSE
    ELSE IF IsJunk(u) THEN FALSE
    ELSE IF (Includes(u, Str_icon) \/ Includes(u, Str_logo)) /\ ~Includes(u, Str_property)
    THEN FALSE
    ELSE TRUE

\* the last filter callback of cleanImages
KeepUrl(u) ==
    IF ~StartsWith(u, Str_http) THEN FALSE
    ELSE IF IsJunk(u) THEN FALSE
    ELSE IF IsVendorImage(u) THEN TRUE
    ELSE IF (Includes(u, Str_icon) \/ Includes(u, Str_logo)) /\ ~Includes(u, Str_property)
    THEN FALSE
    ELSE TRUE

cleanImages(images, baseUrl) ==
    LET mapped == [i \in 1..Len(images) |-> NormalizeUrl(images[i], baseUrl)]
        resolved == SelectSeq(mapped, LAMBDA u : u # NullUrl)
    IN SelectSeq(resolved, KeepUrl)

---------------------------------------------------------------------------
(* Inputs of the acquisition chain.                                        *)

\* the longest list of raw image candidates a page holds
MaxImages == 2

Url_listing == <<"h", "t", "t", "p", "s", ":", "/", "/", "s", ".", "c", "o", "/", "x">>
Urls == {Url_listing}

Raw_plain == <<"h", "t", "t", "p", "s", ":", "/", "/", "i", ".", "c", "o", "/", "a", ".", "j", "p", "g">>
Raw_escaped == <<"h", "t", "t", "p", "s", ":", "\\", "/", "\\", "/", "i", ".", "c", "o", "\\", "/", "a", ".", "j", "p", "g">>
Raw_protocolRelative == <<"/", "/", "i", ".", "c", "o", "/", "a", ".", "j", "p", "g">>
Raw_badHost == <<"/", "/", "i", " ", "c", "o", "/", "a", ".", "j", "p", "g">>
Raw_otherScheme == <<"h", "t", "t", "p", "x", ":", "/", "/", "i", ".", "c", "o", "/", "a", ".", "j", "p", "g">>
Raw_relative == <<"/", "a", ".", "j", "p", "g">>
Raw_unresolvable == <<"h", "t", "t", "p", "s", ":", "/", "/", " ", "/", "a", ".", "j", "p", "g">>
RawCandidates == {Raw_plain, Raw_escaped, Raw_protocolRelative, Raw_badHost,
                  Raw_otherScheme, Raw_relative, Raw_unresolvable}

\* the candidate lists a page may hold, duplicates included
Pages == UNION {[1..n -> RawCandidates] : n \in 0..MaxImages}

PROXY_PROVIDERS == <<"corsproxy", "codetabs", "allorigins">>
MinBodyLen == 500

NoError == <<>>
NoFetchError == "null"
FetchErrors == {"aborted", "network"}

\* a response body: its length, the raw candidates the extraction passes find
\* in it (in discovery order), and the title and text extractTextFromHtml reads
EmptyBody == [len |-> 0, found |-> <<>>, title |-> "", text |-> ""]
Bodies(pg) ==
    {EmptyBody} \cup
    {[len |-> l, found |-> pg, title |-> "Listing", text |-> "3 bed house"] :
        l \in {1, MinBodyLen, MinBodyLen + 1}}

\* what one relay request can end in
RelayOutcomes(pg) ==
    {[kind |-> "throw", error |-> e, body |-> EmptyBody] : e \in FetchErrors}
    \cup {[kind |-> "notok", error |-> NoFetchError, body |-> EmptyBody]}
    \cup {[kind |-> "ok", error |-> NoFetchError, body |-> b] : b \in Bodies(pg)}

\* the JSON payloads of the local service: images may be missing
LocalPayloads(pg) ==
    {[hasImages |-> TRUE, images |-> pg, title |-> t, text |-> x] :
        t \in {"", "Listing"}, x \in {"", "3 bed house"}}
    \cup {[hasImages |-> FALSE, images |-> <<>>, title |-> "Listing", text |-> ""]}

NoPayload == [hasImages |-> FALSE, images |-> <<>>, title |-> "", text |-> ""]

\* what the request to the local service can end in
LocalOutcomes(pg) ==
    {[kind |-> k, data |-> NoPayload] : k \in {"throw", "notok", "badjson"}}
    \cup {[kind |-> "ok", data |-> d] : d \in LocalPayloads(pg)}

---------------------------------------------------------------------------
(* scrapeUrl and scrapeViaProxies (src/utils/scraper.ts).                  *)

NoResult == [url |-> <<>>, images |-> <<>>, text |-> "", title |-> "", error |-> NoError]

\* how a call ends: it returns a value, throws, or (a try block) runs off its end
Return(v) == [kind |-> "return", value |-> v, error |-> NoError]
Throw(e) == [kind |-> "throw", value |-> NoResult, error |-> e]
FallThrough == [kind |-> "fallthrough", value |-> NoResult, error |-> NoError]

\* Array.from(imageSet): the first occurrence of every raw candidate, in order
RECURSIVE SetOrder(_)
SetOrder(found) ==
    IF found = <<>> THEN <<>>
    ELSE LET front == SetOrder(SubSeq(found, 1, Len(found) - 1))
             last == found[Len(found)]
         IN IF \E i \in 1..Len(front) : front[i] = last THEN front
            ELSE Append(front, last)

\* the object the catch block of scrapeUrl returns
ErrorResult(u, message) ==
    [url |-> u, images |-> <<>>, text |-> "", title |-> "Error", error |-> message]

\* the object scrapeUrl builds from the local service's payload
LocalResult(u, data) ==
    [url |-> u,
     images |-> cleanImages(data.images, u),
     title |-> IF data.title = "" THEN "Extracted Property" ELSE data.title,
     text |-> data.text,
     error |-> NoError]

\* the object scrapeViaProxies builds from the html it kept
ProxyResult(u, h) ==
    [url |-> u,
     images |-> cleanImages(SetOrder(h.found), u),
     title |-> IF h.title = "" THEN "Untitled" ELSE h.title,
     text |-> h.text,
     error |-> NoError]

\* the message of the Error scrapeViaProxies throws
FailedMessage(fe) ==
    <<"Failed to fetch content. Last error: ", IF fe = NoFetchError THEN "Blocked" ELSE fe>>

\* the try block of step 1 of scrapeUrl, given what the local request ended in
TryLocal(u, o) ==
    IF o.kind = "throw" THEN Throw(<<"fetch failed">>)
    ELSE IF o.kind = "notok" THEN FallThrough
    ELSE IF o.kind = "badjson" THEN Throw(<<"SyntaxError">>)
    ELSE IF ~o.data.hasImages THEN Throw(<<"TypeError">>)
    ELSE Return(LocalResult(u, o.data))

\* the empty catch block of step 1: the exception is swallowed
CatchLocal(c) == IF c.kind = "throw" THEN FallThrough ELSE c

\* LoopBody without its break
LoopBody_NoBreak(h, used, fe, idx, o) ==
    [html |-> IF o.kind = "ok" THEN o.body ELSE h,
     usedProxy |-> IF o.kind = "ok" /\ o.body.len > MinBodyLen THEN idx ELSE used,
     fetchError |-> IF o.kind = "throw" THEN o.error ELSE fe,
     brk |-> FALSE]

\* one iteration of the relay loop, given what the relay request ended in
LoopBody(h, used, fe, idx, o) ==
    LET h1 == IF o.kind = "ok" THEN o.body ELSE h
        brk == o.kind = "ok" /\ h1.len # 0 /\ h1.len > MinBodyLen
    IN [html |-> h1,
        usedProxy |-> IF brk THEN idx ELSE used,
        fetchError |-> IF o.kind = "throw" THEN o.error ELSE fe,
        brk |-> brk]

\* scrapeViaProxies after the loop
ProxiesEnd(u, h, fe) ==
    IF h.len = 0 THEN Throw(FailedMessage(fe)) ELSE Return(ProxyResult(u, h))

\* step 2 of scrapeUrl without its catch block
CatchProxies_Rethrow(c, u) == c

\* the try/catch of step 2 of scrapeUrl around scrapeViaProxies
CatchProxies(c, u) ==
    IF c.kind = "throw" THEN Return(ErrorResult(u, c.error)) ELSE c

\* The history of the environment's answers: whether the local service answered
\* HTTP-successfully, whether its payload was a JSON object with an image list,
\* the relays (by index) that answered HTTP-successfully with a body longer than
\* MinBodyLen, and the error of the last relay request that failed.
NothingSeen ==
    [localOk |-> FALSE, localUsable |-> FALSE, longFrom |-> {},
     lastError |-> NoFetchError]

SeenLocal(sn, o) ==
    [sn EXCEPT !.localOk = o.kind \in {"badjson", "ok"},
               !.localUsable = (o.kind = "ok" /\ o.data.hasImages)]

SeenRelay(sn, o, idx) ==
    [sn EXCEPT !.longFrom = IF o.kind = "ok" /\ o.body.len > MinBodyLen
                            THEN @ \cup {idx} ELSE @,
               !.lastError = IF o.kind = "throw" THEN o.error ELSE @]

NoRun == [urls |-> <<>>, data |-> <<>>]

\* useState<Record<string, string>>({}) and useState<string | null>(null)
NoSummaries == <<>>
NoUrl == <<"null">>

AppIdle ==
    /\ inputUrls = <<>>
    /\ scrapedData = <<>>
    /\ processingStatus = <<>>
    /\ isScraping = FALSE
    /\ runs = <<>>
    /\ started = 0
    /\ lastRun = NoRun
    /\ summaries = NoSummaries
    /\ generatingSummaryFor = NoUrl

NoDownload ==
    [pc |-> "idle", images |-> <<>>, fetches |-> <<>>, files |-> {}, archive |-> {},
     saved |-> <<>>]

NoSummarize == [apiKey |-> TRUE, runs |-> <<>>, calls |-> <<>>, sent |-> <<>>]
NoFilter == [url |-> <<>>, scheme |-> <<>>, tokens |-> {}, pc |-> "idle", kept |-> FALSE]
NoTasks == <<>>

\* nothing but the part under study runs
OthersIdle == sum = NoSummarize /\ flt = NoFilter /\ tasks = NoTasks

InitScrape ==
    /\ url \in Urls
    /\ page \in Pages
    /\ pc = "start"
    /\ proxyIdx = 0
    /\ html = EmptyBody
    /\ usedProxy = 0
    /\ fetchError = NoFetchError
    /\ requests = <<>>
    /\ seen = NothingSeen
    /\ result = NoResult
    /\ thrown = FALSE
    /\ AppIdle
    /\ dl = NoDownload
    /\ OthersIdle

\* scrapeUrl is called: the request to the local service goes out
ScrapeUrlCall ==
    /\ pc = "start"
    /\ pc' = "awaitLocal"
    /\ requests' = <<"local">>
    /\ UNCHANGED <<url, page, proxyIdx, html, usedProxy, fetchError, seen,
                   result, thrown, appVars, dl, sum, flt, tasks>>

\* the local service's payload is accepted: scrapeUrl returns it
LocalReturns ==
    /\ pc = "awaitLocal"
    /\ \E o \in LocalOutcomes(page) :
        LET c == CatchLocal(TryLocal(url, o))
        IN /\ c.kind = "return"
           /\ seen' = SeenLocal(seen, o)
           /\ result' = c.value
           /\ pc' = "done"
    /\ UNCHANGED <<url, page, proxyIdx, html, usedProxy, fetchError, requests,
                   thrown, appVars, dl, sum, flt, tasks>>

\* step 1 did not return: scrapeViaProxies starts and requests the first relay
LocalFallsThrough ==
    /\ pc = "awaitLocal"
    /\ \E o \in LocalOutcomes(page) :
        /\ CatchLocal(TryLocal(url, o)).kind = "fallthrough"
        /\ seen' = SeenLocal(seen, o)
    /\ html' = EmptyBody
    /\ usedProxy' = 0
    /\ fetchError' = NoFetchError
    /\ proxyIdx' = 1
    /\ requests' = Append(requests, PROXY_PROVIDERS[1])
    /\ pc' = "awaitRelay"
    /\ UNCHANGED <<url, page, result, thrown, appVars, dl, sum, flt, tasks>>

\* a relay's answer is not accepted and another relay is left: it is requested
RelayContinues ==
    /\ pc = "awaitRelay"
    /\ proxyIdx < Len(PROXY_PROVIDERS)
    /\ \E o \in RelayOutcomes(page) :
        LET b == LoopBody(html, usedProxy, fetchError, proxyIdx, o)
        IN /\ ~b.brk
           /\ seen' = SeenRelay(seen, o, proxyIdx)
           /\ html' = b.html
           /\ usedProxy' = b.usedProxy
           /\ fetchError' = b.fetchError
    /\ proxyIdx' = proxyIdx + 1
    /\ requests' = Append(requests, PROXY_PROVIDERS[proxyIdx + 1])
    /\ UNCHANGED <<url, page, pc, result, thrown, appVars, dl, sum, flt, tasks>>

\* the loop ends (break, or no relay left): scrapeViaProxies throws or parses
\* the html it kept, and scrapeUrl returns
RelayFinishes ==
    /\ pc = "awaitRelay"
    /\ \E o \in RelayOutcomes(page) :
        LET b == LoopBody(html, usedProxy, fetchError, proxyIdx, o)
            c == CatchProxies(ProxiesEnd(url, b.html, b.fetchError), url)
        IN /\ b.brk \/ proxyIdx = Len(PROXY_PROVIDERS)
           /\ seen' = SeenRelay(seen, o, proxyIdx)
           /\ html' = b.html
           /\ usedProxy' = b.usedProxy
           /\ fetchError' = b.fetchError
           /\ result' = c.value
           /\ thrown' = (c.kind = "throw")
    /\ pc' = "done"
    /\ UNCHANGED <<url, page, proxyIdx, requests, appVars, dl, sum, flt, tasks>>

NextScrape ==
    \/ ScrapeUrlCall
    \/ LocalReturns
    \/ LocalFallsThrough
    \/ RelayContinues
    \/ RelayFinishes

SpecScrape == InitScrape /\ [][NextScrape]_vars

---------------------------------------------------------------------------
(* The App component: handleScrape, handleInputChange, clearAll            *)
(* (src/unnamed/part_001).                                                 *)

\* how many handleScrape invocations a behaviour starts
MaxRuns == 2

Text_empty == <<>>
Text_one == <<"h", "t", "t", "p", ":", "/", "/", "a">>
Text_two == <<"h", "t", "t", "p", ":", "/", "/", "a", "\n", "n", "o", "t", " ", "a", " ", "u", "r", "l", "\n", "\n", " ", "h", "t", "t", "p", ":", "/", "/", "b", " ">>
Text_twice == <<" ", "h", "t", "t", "p", ":", "/", "/", "a", "\n", "h", "t", "t", "p", ":", "/", "/", "a">>
Text_invalid == <<"x", "\n">>
\* what the user may type into the textarea
InputTexts == {Text_empty, Text_one, Text_two, Text_twice, Text_invalid}

NoMessage == <<>>
Pending == [kind |-> "pending", value |-> NoResult, error |-> NoError]

\* ValidUrls without the isValidUrl test
ValidUrls_Unchecked(text) ==
    LET lines == Split(text)
        trimmed == [i \in 1..Len(lines) |-> Trim(lines[i])]
    IN SelectSeq(trimmed, LAMBDA u : Len(u) > 0)

\* the URLs handleScrape works on: the lines of the text, trimmed, without the
\* empty and the invalid ones
ValidUrls(text) ==
    LET lines == Split(text)
        trimmed == [i \in 1..Len(lines) |-> Trim(lines[i])]
    IN SelectSeq(trimmed, LAMBDA u : Len(u) > 0 /\ isValidUrl(u))

\* urls.map(url => ({ url, status: 'loading' }))
LoadingStatus(urls) ==
    [i \in 1..Len(urls) |-> [url |-> urls[i], status |-> "loading", message |-> NoMessage]]

\* the status entry a task writes for its URL once scrapeUrl has ended as c
SettledEntry(u, c) ==
    IF c.kind = "throw"
    THEN [url |-> u, status |-> "error", message |-> <<"Failed to process">>]
    ELSE [url |-> u,
          status |-> IF c.value.error # NoError THEN "error" ELSE "success",
          message |-> c.value.error]

\* prev.map(p => p.url === url ? {...} : p)
UpdateStatus(prev, u, c) ==
    [i \in 1..Len(prev) |-> IF prev[i].url = u THEN SettledEntry(u, c) ELSE prev[i]]

\* what a task's promise resolves to: the data, or null from the catch block
TaskValue(c) ==
    IF c.kind = "throw" THEN [kind |-> "null", value |-> NoResult, error |-> NoError]
    ELSE c

\* data.filter(d => d !== null)
NonNull(data) ==
    LET kept == SelectSeq(data, LAMBDA d : d.kind # "null")
    IN [i \in 1..Len(kept) |-> kept[i].value]

\* the ways scrapeUrl(u) may end for a task of handleScrape: it returns the
\* result of an accepted answer or the error result, and never throws
ScrapeCompletions(u) ==
    {Return(ErrorResult(u, FailedMessage(NoFetchError))),
     Return(ProxyResult(u, [len |-> MinBodyLen + 1, found |-> <<Raw_plain>>,
                            title |-> "Listing", text |-> "3 bed house"]))}

RemoveAt(seq, k) == SubSeq(seq, 1, k - 1) \o SubSeq(seq, k + 1, Len(seq))

InitApp ==
    /\ AppIdle
    /\ url = Url_listing
    /\ page = <<>>
    /\ pc = "start"
    /\ proxyIdx = 0
    /\ html = EmptyBody
    /\ usedProxy = 0
    /\ fetchError = NoFetchError
    /\ requests = <<>>
    /\ seen = NothingSeen
    /\ result = NoResult
    /\ thrown = FALSE
    /\ dl = NoDownload
    /\ OthersIdle

\* the textarea's onChange; the textarea is disabled while isScraping
handleInputChange ==
    /\ ~isScraping
    /\ \E t \in InputTexts : t # inputUrls /\ inputUrls' = t
    /\ UNCHANGED <<scrapedData, processingStatus, isScraping, runs, started, lastRun,
                   summaries, generatingSummaryFor, scrapeVars, dl, sum, flt, tasks>>

\* handleScrape on a text without a valid URL: an alert, and nothing else
HandleScrapeNoUrls ==
    /\ ValidUrls(inputUrls) = <<>>
    /\ UNCHANGED vars

\* Whether the Extract button takes a click. The Button component is not among
\* the sources; by the specification a new scrape can be submitted while an
\* earlier one is in flight.
ScrapeButtonEnabled == TRUE

\* handleScrape up to its await: the state is reset and one task per URL starts
HandleScrapeStarts ==
    /\ ScrapeButtonEnabled
    /\ started < MaxRuns
    /\ LET urls == ValidUrls(inputUrls)
       IN /\ urls # <<>>
          /\ isScraping' = TRUE
          /\ scrapedData' = <<>>
          /\ processingStatus' = LoadingStatus(urls)
          /\ runs' = Append(runs, [urls |-> urls, data |-> [i \in 1..Len(urls) |-> Pending]])
    /\ started' = started + 1
    /\ UNCHANGED <<inputUrls, lastRun, summaries, generatingSummaryFor, scrapeVars, dl, sum, flt, tasks>>

\* a task's scrapeUrl ends while other tasks of its invocation are pending:
\* the task updates the status list
TaskSettles ==
    /\ \E r \in 1..Len(runs) : \E i \in 1..Len(runs[r].urls) :
        /\ runs[r].data[i] = Pending
        /\ \E j \in 1..Len(runs[r].urls) : j # i /\ runs[r].data[j] = Pending
        /\ \E c \in ScrapeCompletions(runs[r].urls[i]) :
            /\ processingStatus' = UpdateStatus(processingStatus, runs[r].urls[i], c)
            /\ runs' = [runs EXCEPT ![r].data[i] = TaskValue(c)]
    /\ UNCHANGED <<inputUrls, scrapedData, isScraping, started, lastRun, summaries, generatingSummaryFor, scrapeVars, dl, sum, flt, tasks>>

\* the last pending task of an invocation ends: the task updates the status
\* list, Promise.all resolves, and handleScrape publishes the results
LastTaskSettles ==
    /\ \E r \in 1..Len(runs) : \E i \in 1..Len(runs[r].urls) :
        /\ runs[r].data[i] = Pending
        /\ \A j \in 1..Len(runs[r].urls) : j # i => runs[r].data[j] # Pending
        /\ \E c \in ScrapeCompletions(runs[r].urls[i]) :
            LET data == [runs[r].data EXCEPT ![i] = TaskValue(c)]
            IN /\ processingStatus' = UpdateStatus(processingStatus, runs[r].urls[i], c)
               /\ scrapedData' = NonNull(data)
               /\ lastRun' = [urls |-> runs[r].urls, data |-> data]
        /\ runs' = RemoveAt(runs, r)
    /\ isScraping' = FALSE
    /\ UNCHANGED <<inputUrls, started, summaries, generatingSummaryFor, scrapeVars, dl, sum, flt, tasks>>

\* the Clear button; it is disabled while isScraping and when there is nothing
\* to clear
clearAll ==
    /\ ~isScraping
    /\ inputUrls # <<>> \/ Len(scrapedData) # 0
    /\ scrapedData' = <<>>
    /\ inputUrls' = <<>>
    /\ processingStatus' = <<>>
    /\ summaries' = NoSummaries
    /\ UNCHANGED <<isScraping, runs, started, lastRun, generatingSummaryFor, scrapeVars,
                   dl, sum, flt, tasks>>

NextApp ==
    \/ handleInputChange
    \/ HandleScrapeNoUrls
    \/ HandleScrapeStarts
    \/ TaskSettles
    \/ LastTaskSettles
    \/ clearAll

SpecApp == InitApp /\ [][NextApp]_vars

\* The same component when no scrape is submitted while another is in flight.
HandleScrapeStartsIdle == ~isScraping /\ HandleScrapeStarts

NextAppSerial ==
    \/ handleInputChange
    \/ HandleScrapeNoUrls
    \/ HandleScrapeStartsIdle
    \/ TaskSettles
    \/ LastTaskSettles
    \/ clearAll

SpecAppSerial == InitApp /\ [][NextAppSerial]_vars

---------------------------------------------------------------------------
(* handleDownloadImages (src/unnamed/part_001).                            *)

\* the longest image list of a listing whose images are downloaded
MaxDownloadImages == 3

Img_png == <<"h", "t", "t", "p", "s", ":", "/", "/", "i", ".", "c", "o", "/", "b", ".", "p", "n", "g">>
Str_dotPng == <<".", "p", "n", "g">>
Str_dotWebp == <<".", "w", "e", "b", "p">>
Str_imagesZip == <<"_", "i", "m", "a", "g", "e", "s", ".", "z", "i", "p">>
Title_listing == <<"3", " ", "b", "e", "d", " ", "f", "l", "a", "t", ",", " ", "s", "e", "a", " ", "v", "i", "e", "w", " ", "&", " ", "g", "a", "r", "a", "g", "e">>
TitlePrefixLen == 20

\* the image lists of the listings the Download button is shown for
DownloadLists == UNION {[1..n -> {Raw_plain, Img_png}] : n \in 0..MaxDownloadImages}

\* the extension handleDownloadImages gives the file of an image URL
Extension(imgUrl) ==
    IF Includes(imgUrl, Str_dotWebp) THEN "webp"
    ELSE IF Includes(imgUrl, Str_dotPng) THEN "png"
    ELSE "jpg"

\* FileName without the index
FileName_NoIndex(index, imgUrl) == <<"image_", 1, ".", Extension(imgUrl)>>

\* `image_${index + 1}.${ext}`, for the 1-based position of the image
FileName(index, imgUrl) == <<"image_", index, ".", Extension(imgUrl)>>

\* data.title.substring(0, 20).replace(/[^a-z0-9]/gi, '_') + '_images.zip'
ArchiveName(title) ==
    LET prefix == SubSeq(title, 1, IF Len(title) < TitlePrefixLen THEN Len(title)
                                   ELSE TitlePrefixLen)
    IN [i \in 1..Len(prefix) |->
            IF prefix[i] \in Letters \cup Digits THEN prefix[i] ELSE "_"]
       \o Str_imagesZip

\* what the image task does once its image's bytes are there
AddFile(files, index, imgUrl) == files \cup {FileName(index, imgUrl)}

InitZip ==
    /\ AppIdle
    /\ url = Url_listing
    /\ page = <<>>
    /\ pc = "start"
    /\ proxyIdx = 0
    /\ html = EmptyBody
    /\ usedProxy = 0
    /\ fetchError = NoFetchError
    /\ requests = <<>>
    /\ seen = NothingSeen
    /\ result = NoResult
    /\ thrown = FALSE
    /\ dl = NoDownload
    /\ OthersIdle

\* handleDownloadImages on a listing without images returns at once
HandleDownloadNoImages ==
    /\ dl.pc \in {"idle", "saved"}
    /\ <<>> \in DownloadLists
    /\ UNCHANGED vars

\* handleDownloadImages up to its await: a new zip, and one fetch per image
HandleDownloadImages ==
    /\ dl.pc \in {"idle", "saved"}
    /\ \E images \in DownloadLists :
        /\ Len(images) # 0
        /\ dl' = [pc |-> "fetching", images |-> images,
                  fetches |-> [i \in 1..Len(images) |-> "fetching"],
                  files |-> {}, archive |-> {}, saved |-> <<>>]
    /\ UNCHANGED <<scrapeVars, appVars, sum, flt, tasks>>

\* whether the task of image i is the last one of the invocation to settle
LastFetch(i) == \A j \in 1..Len(dl.images) : j # i => dl.fetches[j] \in {"ok", "failed"}

\* fetch(proxyUrl) resolves for image i: the task goes on to read the blob
ImageResponds ==
    /\ dl.pc = "fetching"
    /\ \E i \in 1..Len(dl.images) :
        /\ dl.fetches[i] = "fetching"
        /\ dl' = [dl EXCEPT !.fetches[i] = "reading"]
    /\ UNCHANGED <<scrapeVars, appVars, sum, flt, tasks>>

\* response.blob() resolves for image i: its file is added to the zip; after
\* the last task Promise.all resolves and the archive is being generated
ImageStored ==
    /\ dl.pc = "fetching"
    /\ \E i \in 1..Len(dl.images) :
        /\ dl.fetches[i] = "reading"
        /\ dl' = [dl EXCEPT !.fetches[i] = "ok",
                            !.files = AddFile(@, i, dl.images[i]),
                            !.pc = IF LastFetch(i) THEN "generating" ELSE @]
    /\ UNCHANGED <<scrapeVars, appVars, sum, flt, tasks>>

\* fetch or response.blob() rejects for image i: the catch block logs it
ImageFails ==
    /\ dl.pc = "fetching"
    /\ \E i \in 1..Len(dl.images) :
        /\ dl.fetches[i] \in {"fetching", "reading"}
        /\ dl' = [dl EXCEPT !.fetches[i] = "failed",
                            !.pc = IF LastFetch(i) THEN "generating" ELSE @]
    /\ UNCHANGED <<scrapeVars, appVars, sum, flt, tasks>>

\* zip.generateAsync resolves and saveAs is called with the archive
ArchiveSaved ==
    /\ dl.pc = "generating"
    /\ dl' = [dl EXCEPT !.pc = "saved",
                        !.archive = dl.files,
                        !.saved = Append(@, ArchiveName(Title_listing))]
    /\ UNCHANGED <<scrapeVars, appVars, sum, flt, tasks>>

NextZip ==
    \/ HandleDownloadNoImages
    \/ HandleDownloadImages
    \/ ImageResponds
    \/ ImageStored
    \/ ImageFails
    \/ ArchiveSaved

SpecZip == InitZip /\ [][NextZip]_vars

---------------------------------------------------------------------------
(* The filter callback of cleanImages on its own (src/utils/scraper.ts).   *)

\* how many of the substrings the callback looks for a URL holds at most
MaxTokens == 3

Str_svgWord == <<"s", "v", "g">>
Str_schemeSep == <<":", "/", "/", "i", ".", "c", "o">>

\* the substrings the callback looks for, and "svg" without its dot
TokenOrder ==
    <<Str_svg, Str_svgWord, Str_tracker, Str_analytics, Str_facebook, Str_google,
      Str_whatsapp, Str_prop24, Str_property24, Str_icon, Str_logo, Str_property>>
FilterTokens == {TokenOrder[i] : i \in 1..Len(TokenOrder)}
FilterSchemes == {Str_http, Str_https, Str_ftp}

\* a resolved URL whose path segments are the tokens of T
FilterUrl(scheme, T) ==
    LET sel == SelectSeq(TokenOrder, LAMBDA t : t \in T)
    IN scheme \o Str_schemeSep \o Flatten([i \in 1..Len(sel) |-> <<"/">> \o sel[i]])

InitFilter ==
    /\ \E sc \in FilterSchemes :
       \E T \in {X \in SUBSET FilterTokens : Cardinality(X) <= MaxTokens} :
           flt = [url |-> FilterUrl(sc, T), scheme |-> sc, tokens |-> T,
                  pc |-> "given", kept |-> FALSE]
    /\ AppIdle
    /\ url = Url_listing
    /\ page = <<>>
    /\ pc = "start"
    /\ proxyIdx = 0
    /\ html = EmptyBody
    /\ usedProxy = 0
    /\ fetchError = NoFetchError
    /\ requests = <<>>
    /\ seen = NothingSeen
    /\ result = NoResult
    /\ thrown = FALSE
    /\ dl = NoDownload
    /\ sum = NoSummarize
    /\ tasks = NoTasks

\* the callback answers for the URL it was given
FilterKeeps ==
    /\ flt.pc = "given"
    /\ KeepUrl(flt.url)
    /\ flt' = [flt EXCEPT !.pc = "done", !.kept = TRUE]
    /\ UNCHANGED <<scrapeVars, appVars, dl, sum, tasks>>

FilterDrops ==
    /\ flt.pc = "given"
    /\ ~KeepUrl(flt.url)
    /\ flt' = [flt EXCEPT !.pc = "done", !.kept = FALSE]
    /\ UNCHANGED <<scrapeVars, appVars, dl, sum, tasks>>

NextFilter ==
    \/ FilterKeeps
    \/ FilterDrops

SpecFilter == InitFilter /\ [][NextFilter]_vars

---------------------------------------------------------------------------
(* handleSummarize (src/unnamed/part_001) and summarizePropertyListing     *)
(* (src/unnamed/part_000).                                                 *)

\* how many calls of handleSummarize a behaviour makes
MaxSummaries == 3

Url_a == <<"h", "t", "t", "p", ":", "/", "/", "a">>
Url_b == <<"h", "t", "t", "p", ":", "/", "/", "b">>

\* the (url, text) pairs of the result cards whose summary button is clicked;
\* the text of a listing may be empty
SummaryListings == {[url |-> u, text |-> x] : u \in {Url_a, Url_b}, x \in {"", "3 bed house"}}

NoSummaryText == "No summary generated."
SummaryFailure == "Failed to generate summary. Please check your API key or try again."

\* what the request to the external model can end in: a response with text, a
\* response without text, a rejection
ModelOutcomes == {[kind |-> "ok", text |-> "Summary"], [kind |-> "ok", text |-> ""],
                  [kind |-> "throw", text |-> ""]}

\* the value summarizePropertyListing resolves to once the request ended as o
SummaryOf(o) ==
    IF o.kind = "throw" THEN SummaryFailure
    ELSE IF o.text = "" THEN NoSummaryText
    ELSE o.text

\* handleSummarize without its guard
SummarizeReturnsEarly_Never(text) == FALSE

\* if (!text) return;
SummarizeReturnsEarly(text) == text = ""

\* setSummaries(prev => ({ ...prev, [url]: summary }))
SetSummary(prev, u, summary) == (u :> summary) @@ prev

InitSummary ==
    /\ \E k \in BOOLEAN : sum = [NoSummarize EXCEPT !.apiKey = k]
    /\ AppIdle
    /\ url = Url_listing
    /\ page = <<>>
    /\ pc = "start"
    /\ proxyIdx = 0
    /\ html = EmptyBody
    /\ usedProxy = 0
    /\ fetchError = NoFetchError
    /\ requests = <<>>
    /\ seen = NothingSeen
    /\ result = NoResult
    /\ thrown = FALSE
    /\ dl = NoDownload
    /\ flt = NoFilter
    /\ tasks = NoTasks

\* handleSummarize returns at its guard
HandleSummarizeNoText ==
    /\ Len(sum.calls) < MaxSummaries
    /\ \E l \in SummaryListings :
        /\ SummarizeReturnsEarly(l.text)
        /\ sum' = [sum EXCEPT !.calls = Append(@, l)]
    /\ UNCHANGED <<scrapeVars, appVars, dl, flt, tasks>>

\* handleSummarize up to its await: the indicator is set and
\* summarizePropertyListing runs up to its own await; without an API key
\* getAiClient throws, the catch block returns the failure message and
\* nothing is sent
HandleSummarizeStarts ==
    /\ Len(sum.calls) < MaxSummaries
    /\ \E l \in SummaryListings :
        /\ ~SummarizeReturnsEarly(l.text)
        /\ generatingSummaryFor' = l.url
        /\ sum' = [sum EXCEPT
                     !.calls = Append(@, l),
                     !.sent = IF sum.apiKey THEN Append(@, l.text) ELSE @,
                     !.runs = Append(@, [url |-> l.url,
                                         pc |-> IF sum.apiKey THEN "awaitModel"
                                                ELSE "awaitFailure"])]
    /\ UNCHANGED <<inputUrls, scrapedData, processingStatus, isScraping, runs, started,
                   lastRun, summaries, scrapeVars, dl, flt, tasks>>

\* the external model answers (or the request fails): the summary is stored
\* and the finally block clears the indicator
SummaryArrives ==
    /\ \E r \in 1..Len(sum.runs) :
        /\ sum.runs[r].pc = "awaitModel"
        /\ \E o \in ModelOutcomes :
            summaries' = SetSummary(summaries, sum.runs[r].url, SummaryOf(o))
        /\ sum' = [sum EXCEPT !.runs = RemoveAt(@, r)]
    /\ generatingSummaryFor' = NoUrl
    /\ UNCHANGED <<inputUrls, scrapedData, processingStatus, isScraping, runs, started,
                   lastRun, scrapeVars, dl, flt, tasks>>

\* the continuation of a call that found no API key: the failure message is
\* stored as the summary
SummaryFails ==
    /\ \E r \in 1..Len(sum.runs) :
        /\ sum.runs[r].pc = "awaitFailure"
        /\ summaries' = SetSummary(summaries, sum.runs[r].url, SummaryFailure)
        /\ sum' = [sum EXCEPT !.runs = RemoveAt(@, r)]
    /\ generatingSummaryFor' = NoUrl
    /\ UNCHANGED <<inputUrls, scrapedData, processingStatus, isScraping, runs, started,
                   lastRun, scrapeVars, dl, flt, tasks>>

NextSummary ==
    \/ HandleSummarizeNoText
    \/ HandleSummarizeStarts
    \/ SummaryArrives
    \/ SummaryFails

SpecSummary == InitSummary /\ [][NextSummary]_vars

---------------------------------------------------------------------------
(* One handleScrape run with its tasks followed through scrapeUrl, await by *)
(* await (src/unnamed/part_001, src/utils/scraper.ts). A fetch resolves     *)
(* when the response's status line and headers are there; the body is read  *)
(* by response.json() and response.text(), which are awaited separately.    *)

\* the page every listing URL of a run holds
Page_listing == <<Raw_plain>>

\* a task's scrapeUrl call just after it was made: the request to the local
\* service is out, its AbortSignal.timeout(3000) armed
TaskStart ==
    [pc |-> "awaitLocal", proxyIdx |-> 0, html |-> EmptyBody, fetchError |-> NoFetchError]

\* what a fetch can end in: a rejection (network failure, or the abort of its
\* timeout), a response that is not ok, a response that is ok
FetchOutcomes == {"throw", "notok", "ok"}

\* what reading the body of the local service's response can end in: a
\* rejection (malformed JSON, or the abort of the signal, which stays armed),
\* or a payload
LocalBodyOutcomes ==
    {o \in LocalOutcomes(Page_listing) : o.kind \in {"badjson", "ok"}}

\* what reading the body of a relay's response can end in: a rejection, or the
\* text
RelayBodyOutcomes ==
    {o \in RelayOutcomes(Page_listing) :
        \/ o.kind = "ok"
        \/ o.kind = "throw" /\ o.error = "network"}

\* the outcome records of a fetch that did not end in an ok response
LocalFetchFailure(k) == [kind |-> k, data |-> NoPayload]
RelayFetchFailure(k) ==
    [kind |-> k, error |-> IF k = "throw" THEN "aborted" ELSE NoFetchError,
     body |-> EmptyBody]

\* scrapeViaProxies is entered: the first relay is requested through
\* fetchWithTimeout, whose timer is armed
RelayStart ==
    [pc |-> "awaitRelay", proxyIdx |-> 1, html |-> EmptyBody, fetchError |-> NoFetchError]

\* the task's scrapeUrl call has ended as c: the task updates the status list;
\* when it was the last pending task of its invocation, Promise.all resolves
\* and handleScrape publishes the results and clears isScraping
SettleTask(r, i, c) ==
    LET data == [runs[r].data EXCEPT ![i] = TaskValue(c)]
        last == \A j \in 1..Len(runs[r].urls) : j # i => runs[r].data[j] # Pending
    IN /\ processingStatus' = UpdateStatus(processingStatus, runs[r].urls[i], c)
       /\ IF last
          THEN /\ scrapedData' = NonNull(data)
               /\ runs' = RemoveAt(runs, r)
               /\ tasks' = RemoveAt(tasks, r)
               /\ isScraping' = FALSE
          ELSE /\ runs' = [runs EXCEPT ![r].data = data]
               /\ tasks' = [tasks EXCEPT ![r][i].pc = "done"]
               /\ UNCHANGED <<scrapedData, isScraping>>

\* the relay loop after an iteration that ended as o: the next relay is
\* requested, or the loop is left and scrapeUrl ends
AfterLoopBody(r, i, o) ==
    LET t == tasks[r][i]
        u == runs[r].urls[i]
        b == LoopBody(t.html, 0, t.fetchError, t.proxyIdx, o)
    IN IF ~b.brk /\ t.proxyIdx < Len(PROXY_PROVIDERS)
       THEN /\ tasks' = [tasks EXCEPT ![r][i] =
                           [pc |-> "awaitRelay", proxyIdx |-> t.proxyIdx + 1,
                            html |-> b.html, fetchError |-> b.fetchError]]
            /\ UNCHANGED <<scrapedData, processingStatus, isScraping, runs>>
       ELSE SettleTask(r, i, CatchProxies(ProxiesEnd(u, b.html, b.fetchError), u))

\* step 1 of scrapeUrl has ended as c: scrapeUrl returns, or goes on to
\* scrapeViaProxies
AfterLocal(r, i, c) ==
    IF c.kind = "return" THEN SettleTask(r, i, c)
    ELSE /\ tasks' = [tasks EXCEPT ![r][i] = RelayStart]
         /\ UNCHANGED <<scrapedData, processingStatus, isScraping, runs>>

InitRun ==
    /\ AppIdle
    /\ url = Url_listing
    /\ page = <<>>
    /\ pc = "start"
    /\ proxyIdx = 0
    /\ html = EmptyBody
    /\ usedProxy = 0
    /\ fetchError = NoFetchError
    /\ requests = <<>>
    /\ seen = NothingSeen
    /\ result = NoResult
    /\ thrown = FALSE
    /\ dl = NoDownload
    /\ sum = NoSummarize
    /\ flt = NoFilter
    /\ tasks = NoTasks

\* handleScrape up to its await, while no other run is in flight: the state is
\* reset and one task per URL starts, each up to the fetch of step 1
RunStarts ==
    /\ ~isScraping
    /\ started < MaxRuns
    /\ LET urls == ValidUrls(inputUrls)
       IN /\ urls # <<>>
          /\ isScraping' = TRUE
          /\ scrapedData' = <<>>
          /\ processingStatus' = LoadingStatus(urls)
          /\ runs' = Append(runs, [urls |-> urls, data |-> [i \in 1..Len(urls) |-> Pending]])
          /\ tasks' = Append(tasks, [i \in 1..Len(urls) |-> TaskStart])
    /\ started' = started + 1
    /\ UNCHANGED <<inputUrls, lastRun, summaries, generatingSummaryFor, scrapeVars, dl,
                   sum, flt>>

\* the fetch of step 1 settles: it rejects or is aborted after 3 s, or the
\* local service responds
LocalResponds ==
    /\ \E r \in 1..Len(tasks) : \E i \in 1..Len(tasks[r]) :
        /\ tasks[r][i].pc = "awaitLocal"
        /\ \E k \in FetchOutcomes :
            IF k = "ok"
            THEN /\ tasks' = [tasks EXCEPT ![r][i].pc = "awaitLocalJson"]
                 /\ UNCHANGED <<scrapedData, processingStatus, isScraping, runs>>
            ELSE AfterLocal(r, i, CatchLocal(TryLocal(runs[r].urls[i], LocalFetchFailure(k))))
    /\ UNCHANGED <<inputUrls, started, lastRun, summaries, generatingSummaryFor, scrapeVars, dl,
                   sum, flt>>

\* response.json() of step 1 settles; the 3 s signal is still armed
LocalJsonEnds ==
    /\ \E r \in 1..Len(tasks) : \E i \in 1..Len(tasks[r]) :
        /\ tasks[r][i].pc = "awaitLocalJson"
        /\ \E o \in LocalBodyOutcomes :
            AfterLocal(r, i, CatchLocal(TryLocal(runs[r].urls[i], o)))
    /\ UNCHANGED <<inputUrls, started, lastRun, summaries, generatingSummaryFor, scrapeVars, dl,
                   sum, flt>>

\* fetchWithTimeout settles: the fetch rejects or is aborted after 8 s, or the
\* relay responds and the timer is cleared
RelayResponds ==
    /\ \E r \in 1..Len(tasks) : \E i \in 1..Len(tasks[r]) :
        /\ tasks[r][i].pc = "awaitRelay"
        /\ \E k \in FetchOutcomes :
            IF k = "ok"
            THEN /\ tasks' = [tasks EXCEPT ![r][i].pc = "awaitRelayText"]
                 /\ UNCHANGED <<scrapedData, processingStatus, isScraping, runs>>
            ELSE AfterLoopBody(r, i, RelayFetchFailure(k))
    /\ UNCHANGED <<inputUrls, started, lastRun, summaries, generatingSummaryFor, scrapeVars, dl,
                   sum, flt>>

\* response.text() of a relay settles; no timer is armed while it is awaited
RelayTextEnds ==
    /\ \E r \in 1..Len(tasks) : \E i \in 1..Len(tasks[r]) :
        /\ tasks[r][i].pc = "awaitRelayText"
        /\ \E o \in RelayBodyOutcomes : AfterLoopBody(r, i, o)
    /\ UNCHANGED <<inputUrls, started, lastRun, summaries, generatingSummaryFor, scrapeVars, dl,
                   sum, flt>>

NextRun ==
    \/ handleInputChange
    \/ HandleScrapeNoUrls
    \/ RunStarts
    \/ LocalResponds
    \/ LocalJsonEnds
    \/ RelayResponds
    \/ RelayTextEnds
    \/ clearAll

\* Every fetch settles: the network answers or fails, or the timer of the
\* fetch aborts it; the body of the local service's response is read under
\* the same signal.
TimersFire ==
    /\ WF_vars(LocalResponds)
    /\ WF_vars(LocalJsonEnds)
    /\ WF_vars(RelayResponds)

SpecRun == InitRun /\ [][NextRun]_vars /\ TimersFire

\* The same when, in addition, every relay body that started to arrive ends or
\* fails.
SpecRunBodiesEnd == SpecRun /\ WF_vars(RelayTextEnds)

---------------------------------------------------------------------------
(* Properties of the acquisition chain, checked under SpecScrape.          *)

Strategies == <<"local">> \o PROXY_PROVIDERS
IsPrefix(a, b) == Len(a) <= Len(b) /\ SubSeq(b, 1, Len(a)) = a
RelayChainRan == Len(requests) > 1
Min(S) == CHOOSE x \in S : \A y \in S : x <= y

\* C1: when the relay chain ran and no relay answered HTTP-successfully with a
\* body longer than 500 characters, scrapeUrl returns a result whose error
\* carries the last underlying error; and a result without error that came
\* from the relay chain was parsed from a body longer than 500 characters.
C1_ShortBodiesAreNeverParsed ==
    (pc = "done" /\ RelayChainRan) =>
        /\ seen.longFrom = {} => result.error = FailedMessage(seen.lastError)
        /\ result.error = NoError => html.len > MinBodyLen

\* C2 as stated: the requests go out in the fixed order; once the local service
\* has answered HTTP-successfully no relay is requested; once a relay's answer
\* is accepted no later relay is requested.
C2_FirstHttpSuccessWins ==
    /\ IsPrefix(requests, Strategies)
    /\ seen.localOk => requests = <<"local">>
    /\ seen.longFrom # {} => Len(requests) = 1 + Min(seen.longFrom)

\* C2 as amended: the requests go out one at a time in the fixed order local
\* service, corsproxy, codetabs, allorigins; once the local service has answered
\* HTTP-successfully with a JSON payload that carries an image list, no relay is
\* requested and the result is built from that payload; a local answer that is
\* HTTP-successful but carries no such payload is followed by the relay chain;
\* once a relay has answered HTTP-successfully with a body longer than 500
\* characters, no later relay is requested and the result is parsed from that
\* body.
C2_FirstAcceptedStrategyWins ==
    /\ IsPrefix(requests, Strategies)
    /\ pc \in {"awaitLocal", "awaitRelay"} => requests # <<>>
    /\ seen.localUsable =>
        /\ requests = <<"local">>
        /\ pc = "done" /\ usedProxy = 0 /\ result.error = NoError
    /\ (seen.localOk /\ ~seen.localUsable) => RelayChainRan
    /\ seen.longFrom # {} =>
        /\ Len(requests) = 1 + Min(seen.longFrom)
        /\ pc = "done" /\ usedProxy = Min(seen.longFrom)
        /\ result = ProxyResult(url, html) /\ html.len > MinBodyLen

\* a relay after the first one is accepted, and scrapeUrl has returned
C2_Witness ==
    /\ pc = "done"
    /\ seen.longFrom = {2}
    /\ requests = <<"local", "corsproxy", "codetabs">>

\* C5: no exception escapes scrapeUrl, a finished call has returned a result
\* for its URL, and a result with a non-empty error has no images and no text.
C5_ErrorResultsAreEmpty ==
    /\ ~thrown
    /\ pc = "done" => result # NoResult /\ result.url = url
    /\ result.error # NoError => result.images = <<>> /\ result.text = ""

\* every relay failed, and scrapeUrl returned a result with an error
C5_Witness ==
    /\ pc = "done"
    /\ Len(requests) = Len(Strategies)
    /\ result.error # NoError

\* C9: the images of a returned result hold no URL twice.
C9_ImagesHoldNoDuplicate ==
    \A i, j \in 1..Len(result.images) :
        i # j => result.images[i] # result.images[j]

\* C10: every image of a returned result parses as an absolute URL whose scheme
\* is http or https.
C10_ImagesAreAbsoluteHttpUrls ==
    \A i \in 1..Len(result.images) :
        LET parsed == ParseURL(result.images[i], NoBase)
        IN parsed.ok /\ parsed.scheme \in {Str_http, Str_https}

---------------------------------------------------------------------------
(* Properties of the orchestrator, checked under SpecApp.                  *)

StatusUrls == [i \in 1..Len(processingStatus) |-> processingStatus[i].url]
EntriesOf(ps, st) == {i \in 1..Len(ps) : ps[i].status = st}
EntriesIn(st) == EntriesOf(processingStatus, st)
\* a step in which an invocation of handleScrape finishes
RunFinishes == Len(runs') < Len(runs)
\* a step in which a scrape is submitted
Submission == started' # started
\* whether a task's outcome is a failure
Failed(d) == d.kind = "null" \/ d.value.error # NoError

\* C3: when an invocation of handleScrape over n URLs finishes with k failed
\* and n-k successful acquisitions, the status list has exactly k entries in
\* state error and n-k in state success, entry i carries URL i with the state
\* of URL i's own outcome, and scrapedData holds exactly n-k results without
\* error.
C3_StatusReflectsOwnOutcome ==
    [][RunFinishes =>
        LET n == Len(lastRun'.urls)
            k == Cardinality({i \in 1..n : Failed(lastRun'.data[i])})
        IN /\ Cardinality(EntriesOf(processingStatus', "error")) = k
           /\ Cardinality(EntriesOf(processingStatus', "success")) = n - k
           /\ Len(processingStatus') = n
           /\ \A i \in 1..n :
                /\ processingStatus'[i].url = lastRun'.urls[i]
                /\ processingStatus'[i].status =
                     IF Failed(lastRun'.data[i]) THEN "error" ELSE "success"
           /\ Cardinality({i \in 1..Len(scrapedData') :
                             scrapedData'[i].error = NoError}) = n - k]_vars

\* C4: whenever scrapedData is non-empty, no entry of the status list is in
\* state loading.
C4_ResultsOnlyAfterAllSettled ==
    Len(scrapedData) > 0 => EntriesIn("loading") = {}

\* the lines of a text that are non-empty after trimming and parse as URLs
RECURSIVE ValidLines(_)
ValidLines(lines) ==
    IF lines = <<>> THEN <<>>
    ELSE LET u == Trim(Head(lines))
         IN (IF u # <<>> /\ ParseURL(u, NoBase).ok THEN <<u>> ELSE <<>>)
            \o ValidLines(Tail(lines))

\* C6: a submission sets the URLs of the status list to the submitted lines
\* that are non-empty after trimming and valid, in order; after that, until
\* the next submission or clear, no step (a completion of this or of an
\* earlier invocation included) adds, removes or renames a status entry.
C6_StatusUrlsAreTheValidLines ==
    [][/\ Submission => StatusUrls' = ValidLines(Split(inputUrls))
       /\ (~Submission /\ ~clearAll) => StatusUrls' = StatusUrls]_vars

\* the second of two overlapping invocations is in flight on a text with an
\* invalid and an empty line, the first has finished, and an entry is settled
C6_Witness ==
    /\ inputUrls = Text_two
    /\ started = 2
    /\ Len(runs) = 1
    /\ lastRun # NoRun
    /\ Len(processingStatus) = 2
    /\ EntriesIn("loading") # {}
    /\ EntriesIn("success") # {}

\* C7: a submission puts every entry in state loading, and an entry in state
\* success or error keeps its state until the next submission or clear.
C7_SettledEntriesStaySettled ==
    [][/\ Submission => \A i \in 1..Len(processingStatus') :
                            processingStatus'[i].status = "loading"
       /\ (~Submission /\ ~clearAll) =>
            \A i \in 1..Len(processingStatus) :
                processingStatus[i].status \in {"success", "error"} =>
                    /\ i <= Len(processingStatus')
                    /\ processingStatus'[i].status = processingStatus[i].status]_vars

---------------------------------------------------------------------------
(* Properties of the archive builder, checked under SpecZip.               *)

Settled(i) == dl.fetches[i] \in {"ok", "failed"}
Fetched == {i \in 1..Len(dl.images) : dl.fetches[i] = "ok"}

\* C8: saveAs is called at most once per invocation, and only after every
\* image task has settled; once every task has settled the invocation goes on
\* to generate and save (it is never abandoned, whichever images failed);
\* the saved archive holds exactly one file per image that was fetched and
\* none for an image whose fetch failed.
C8_ArchiveHoldsTheFetchedImages ==
    /\ Len(dl.saved) <= 1
    /\ Len(dl.saved) = 1 <=> dl.pc = "saved"
    /\ dl.pc \in {"generating", "saved"} <=>
           (dl.images # <<>> /\ \A i \in 1..Len(dl.images) : Settled(i))
    /\ dl.pc = "saved" =>
        /\ Cardinality(dl.archive) = Cardinality(Fetched)
        /\ \A i \in Fetched : \E f \in dl.archive : f[2] = i
        /\ \A f \in dl.archive : f[2] \in Fetched

\* an archive has been saved for a listing of which one image failed and two
\* images of the same extension were fetched
C8_Witness ==
    /\ dl.pc = "saved"
    /\ Len(dl.images) = 3
    /\ Cardinality(Fetched) = 2
    /\ \E i, j \in Fetched : i # j /\ dl.images[i] = dl.images[j]

---------------------------------------------------------------------------
(* Properties of the filter callback, checked under SpecFilter.            *)

HoldsAny(T, S) == T \cap S # {}
VendorTokens == {Str_prop24, Str_property24}
IconTokens == {Str_icon, Str_logo}
\* the tokens that hold "property"
PropertyTokens == {Str_property, Str_property24}
\* the tokens that hold one of .svg, tracker, analytics, facebook, google, whatsapp
DotSvgDenyTokens ==
    {Str_svg, Str_tracker, Str_analytics, Str_facebook, Str_google, Str_whatsapp}
\* the tokens that hold one of svg, tracker, analytics, facebook, google, whatsapp
SvgDenyTokens == DotSvgDenyTokens \cup {Str_svgWord}

\* the precedence of the filter over the tokens a URL holds, for a denylist
Precedence(T, deny) ==
    /\ ~HoldsAny(T, deny)
    /\ \/ HoldsAny(T, VendorTokens)
       \/ ~HoldsAny(T, IconTokens)
       \/ HoldsAny(T, PropertyTokens)

\* C11 (as stated): an http(s) URL is kept exactly when it holds none of svg,
\* tracker, analytics, facebook, google, whatsapp, and it holds a vendor
\* allowlist substring, or neither icon nor logo, or property.
C11_SvgIsDenied ==
    flt.pc = "done" /\ flt.scheme \in {Str_http, Str_https}
        => flt.kept = Precedence(flt.tokens, SvgDenyTokens)

\* C11 (amended): the filter stage of cleanImages decides each resolved http(s)
\* URL by this precedence, for every combination of the substrings it may
\* hold: a URL holding a denylist substring (.svg with its dot, tracker,
\* analytics, facebook, google, whatsapp) is always excluded; otherwise a URL
\* holding a vendor allowlist substring (images.prop24.com, property24) is
\* always kept, even if it holds icon or logo; otherwise a URL holding icon or
\* logo is excluded unless it also holds property; every other http(s) URL is
\* kept. A URL that holds svg without the dot is not excluded for that.
C11_FilterPrecedence ==
    flt.pc = "done" /\ flt.scheme \in {Str_http, Str_https}
        => flt.kept = Precedence(flt.tokens, DotSvgDenyTokens)

\* an https URL on the vendor allowlist that holds icon went through the
\* filter and was kept
C11_Witness ==
    /\ flt.pc = "done"
    /\ flt.scheme = Str_https
    /\ flt.tokens = {Str_prop24, Str_icon}
    /\ flt.kept

---------------------------------------------------------------------------
(* Properties of handleSummarize, checked under SpecSummary.               *)

\* the step is a call of handleSummarize with an empty text
SummarizeCalledWithNoText ==
    /\ Len(sum'.calls) = Len(sum.calls) + 1
    /\ sum'.calls[Len(sum'.calls)].text = ""

\* C12: a call of handleSummarize with an empty text sends nothing to the
\* external summarizer and leaves the summaries map and the
\* generating-summary indicator as they were, also while another
\* summarization is in flight.
C12_EmptyTextChangesNothing ==
    [][SummarizeCalledWithNoText =>
         /\ sum'.sent = sum.sent
         /\ sum'.runs = sum.runs
         /\ summaries' = summaries
         /\ generatingSummaryFor' = generatingSummaryFor]_vars

\* handleSummarize was just called with an empty text while the summary of
\* a listing was being generated and its text was with the external model
C12_Witness ==
    /\ sum.calls # <<>>
    /\ sum.calls[Len(sum.calls)].text = ""
    /\ generatingSummaryFor # NoUrl
    /\ sum.runs # <<>>
    /\ sum.sent # <<>>

---------------------------------------------------------------------------
(* Properties of a handleScrape run, checked under SpecRun.                *)

SomeLoading == \E i \in 1..Len(processingStatus) : processingStatus[i].status = "loading"

\* C13: every scrape run terminates: when every fetch eventually responds,
\* fails or is aborted by its timeout, every status entry of the run
\* eventually leaves loading and isScraping eventually returns to false.
\* (It does under SpecRunBodiesEnd; under SpecRun a run stays where a relay
\* has responded and the body never ends.)
C13_EveryRunTerminates ==
    /\ isScraping ~> ~isScraping
    /\ SomeLoading ~> ~SomeLoading

\* a relay has responded and its body is being read
RelayBodyPending ==
    \E r \in 1..Len(tasks) : \E i \in 1..Len(tasks[r]) : tasks[r][i].pc = "awaitRelayText"

====
